---- MODULE Spec2Model ----
(***************************************************************************)
(* Model of the text-to-image reference linking of src/app.py:             *)
(*   extract_image_references_from_text  (ReferenceExtractor)              *)
(*   find_mentioned_spots_in_response    (MentionMatcher)                  *)
(*   create_enhanced_prompt, get_ai_response_enhanced and the Streamlit    *)
(*   page script that stores and displays an answer.                       *)
(*                                                                         *)
(* A Python str is a sequence of one-character strings.  The module is     *)
(* ASCII, so the three non-ASCII characters the code names are written     *)
(*   "["  for the opening corner bracket  (U+300C)                         *)
(*   "]"  for the closing corner bracket  (U+300D)                         *)
(*   "*"  for the katakana middle dot     (U+30FB)                         *)
(* A Python dict is a sequence of records in insertion order, with         *)
(* pairwise distinct keys.                                                 *)
(***************************************************************************)
EXTENDS Integers, Sequences, FiniteSets, TLC

VARIABLES
    pc,                \* position of the pure-function harness / page script
    text_content,      \* argument of extract_image_references_from_text
    image_references,  \* its result; argument of the matcher
    ai_response,       \* argument of find_mentioned_spots_in_response
    mentioned_images,  \* its result
    uploader,          \* st.file_uploader: the files selected in the widget
    uploaded_files,    \* st.session_state.uploaded_files (keys, in order)
    ai_response_data,  \* st.session_state.ai_response_data
    backend_failed,    \* history: the stored answer came from the except branch
    current_question_type, \* st.session_state.current_question_type
    analysis_count,    \* st.session_state.analysis_count
    mentioned_spots,   \* the list the page run computed for display
    shown_images       \* the image files the page run displayed

vars == <<pc, text_content, image_references, ai_response, mentioned_images,
          uploader, uploaded_files, ai_response_data, backend_failed,
          current_question_type, analysis_count, mentioned_spots, shown_images>>

(***************************************************************************)
(* Bounds of the model.                                                    *)
(***************************************************************************)
MaxNameLen == 4      \* longest spot name tried by the matcher harness
MaxAnswerLen == 3    \* longest answer tried by the matcher harness
MaxPieces == 4       \* most pieces of a free text given to the extractor
MaxTrailLen == 2     \* longest trailing text of a quoted reference
MaxCount == 2        \* cap on analysis_count
MaxDots == 3         \* most trailing middle dots of a name given to the extractor

(***************************************************************************)
(* Characters.                                                             *)
(***************************************************************************)
LQuote == "["
RQuote == "]"
MiddleDot == "*"
LParen == "("
RParen == ")"
\* str.isspace(): the characters str.split() and str.strip() treat as blank
Whitespace == {" ", "\n", "\t"}

IsSpace(c) == c \in Whitespace

\* all strings over chars of length lo..hi
StringsOver(chars, lo, hi) == UNION {[1..k -> chars] : k \in lo..hi}

(***************************************************************************)
(* Python string primitives.                                               *)
(***************************************************************************)
\* sub in s
In(sub, s) ==
    \E i \in 0..(Len(s) - Len(sub)) : SubSeq(s, i + 1, i + Len(sub)) = sub

\* s.endswith(suffix)
EndsWith(s, suffix) ==
    /\ Len(suffix) <= Len(s)
    /\ SubSeq(s, Len(s) - Len(suffix) + 1, Len(s)) = suffix

\* s.lstrip(chars) / s.rstrip(chars): drop the whole leading / trailing run
RECURSIVE LStrip(_, _)
LStrip(s, chars) ==
    IF s # <<>> /\ Head(s) \in chars THEN LStrip(Tail(s), chars) ELSE s

RECURSIVE RStrip(_, _)
RStrip(s, chars) ==
    IF s # <<>> /\ s[Len(s)] \in chars
    THEN RStrip(SubSeq(s, 1, Len(s) - 1), chars)
    ELSE s

\* s.strip()
Strip(s) == LStrip(RStrip(s, Whitespace), Whitespace)

\* s.replace(c, '') for a one-character c
RemoveChar(s, c) == SelectSeq(s, LAMBDA x : x # c)

\* s.split(): the maximal runs of non-blank characters, left to right.
\* SplitFrom scans s from index i with the current word cur and the words out.
RECURSIVE SplitFrom(_, _, _, _)
SplitFrom(s, i, cur, out) ==
    IF i > Len(s)
    THEN IF cur = <<>> THEN out ELSE Append(out, cur)
    ELSE IF IsSpace(s[i])
         THEN SplitFrom(s, i + 1, <<>>,
                        IF cur = <<>> THEN out ELSE Append(out, cur))
         ELSE SplitFrom(s, i + 1, Append(cur, s[i]), out)

Split(s) == SplitFrom(s, 1, <<>>, <<>>)

(***************************************************************************)
(* Python dict primitives (insertion ordered).                             *)
(***************************************************************************)
Keys(d) == {d[i].spot_name : i \in DOMAIN d}

HasKey(d, k) == \E i \in DOMAIN d : d[i].spot_name = k

\* d[k] for a key that is present
Lookup(d, k) == d[CHOOSE i \in DOMAIN d : d[i].spot_name = k].filename

\* d[k] = v keeps the first writer: not what the code does
DictSet_keepfirst(d, k, v) ==
    IF HasKey(d, k) THEN d ELSE Append(d, [spot_name |-> k, filename |-> v])

\* d[k] = v: a present key keeps its place and takes the new value
DictSet(d, k, v) ==
    IF HasKey(d, k)
    THEN [i \in DOMAIN d |->
            IF d[i].spot_name = k THEN [spot_name |-> k, filename |-> v] ELSE d[i]]
    ELSE Append(d, [spot_name |-> k, filename |-> v])

\* d.update(e)
RECURSIVE DictUpdate(_, _)
DictUpdate(d, e) ==
    IF e = <<>> THEN d
    ELSE DictUpdate(DictSet(d, e[1].spot_name, e[1].filename), Tail(e))

IsDict(d) == \A i, j \in DOMAIN d : d[i].spot_name = d[j].spot_name => i = j

(***************************************************************************)
(* find_mentioned_spots_in_response                                        *)
(***************************************************************************)
\* the floor on a word's length, off by one (> 3)
WordMatches_longer(word, response) == Len(word) > 3 /\ In(word, response)

\* the floor lowered to 2
WordMatches_shorter(word, response) == Len(word) >= 2 /\ In(word, response)

\* line 582: len(word) >= 3 and word in ai_response
WordMatches(word, response) == Len(word) >= 3 /\ In(word, response)

\* lines 581-584: the loop over spot_words
RECURSIVE AnyWordMatches(_, _)
AnyWordMatches(spot_words, response) ==
    IF spot_words = <<>> THEN FALSE
    ELSE IF WordMatches(Head(spot_words), response) THEN TRUE
         ELSE AnyWordMatches(Tail(spot_words), response)

\* the token fallback left out
Found_exactonly(spot_name, response) == In(spot_name, response)

\* the operands of the exact check swapped (ai_response in spot_name)
Found_swapped(spot_name, response) ==
    IF In(response, spot_name) THEN TRUE
    ELSE AnyWordMatches(Split(spot_name), response)

\* lines 573-584: found
Found(spot_name, response) ==
    IF In(spot_name, response) THEN TRUE
    ELSE AnyWordMatches(Split(spot_name), response)

\* a match is put in front of the list
AddMention_front(mentioned, entry) == <<entry>> \o mentioned

\* lines 587-590: mentioned_images.append({...})
AddMention(mentioned, entry) == Append(mentioned, entry)

\* lines 571-590: the loop over image_references.items()
RECURSIVE MentionLoop(_, _, _)
MentionLoop(response, refs, mentioned) ==
    IF refs = <<>> THEN mentioned
    ELSE MentionLoop(response, Tail(refs),
            IF Found(Head(refs).spot_name, response)
            THEN AddMention(mentioned,
                    [spot_name |-> Head(refs).spot_name,
                     filename |-> Head(refs).filename])
            ELSE mentioned)

find_mentioned_spots_in_response(response, refs) ==
    MentionLoop(response, refs, <<>>)

\* lines 805-822: the matching loop written out in the display code
RECURSIVE DisplayMentionLoop(_, _, _)
DisplayMentionLoop(response, refs, mentioned) ==
    IF refs = <<>> THEN mentioned
    ELSE LET spot_name == Head(refs).spot_name
             spot_words == Split(spot_name)
             found ==
                IF In(spot_name, response) THEN TRUE
                ELSE \E i \in DOMAIN spot_words :
                        Len(spot_words[i]) >= 3 /\ In(spot_words[i], response)
         IN  DisplayMentionLoop(response, Tail(refs),
                IF found
                THEN Append(mentioned,
                        [spot_name |-> spot_name, filename |-> Head(refs).filename])
                ELSE mentioned)

\* lines 803-822
DisplayMentionedSpots(data) ==
    IF data.image_references # <<>>
    THEN DisplayMentionLoop(data.ai_response, data.image_references, <<>>)
    ELSE <<>>

(***************************************************************************)
(* extract_image_references_from_text                                      *)
(***************************************************************************)
\* lines 545-549: (?:jpg|jpeg|png|JPG|JPEG|PNG)
ImageExtensions ==
    {<<"j", "p", "g">>, <<"j", "p", "e", "g">>, <<"p", "n", "g">>,
     <<"J", "P", "G">>, <<"J", "P", "E", "G">>, <<"P", "N", "G">>}

\* the least index i >= from with s[i] in chars, 0 when there is none
RECURSIVE FirstIndex(_, _, _)
FirstIndex(s, from, chars) ==
    IF from > Len(s) THEN 0
    ELSE IF s[from] \in chars THEN from
         ELSE FirstIndex(s, from + 1, chars)

\* [^)]*\.(?:jpg|...) matched against the whole of f
IsImageFilename(f) == \E ext \in ImageExtensions : EndsWith(f, <<".">> \o ext)

\* \(([^)]*\.(?:jpg|...))\) tried at index p: the index of the closing
\* parenthesis, 0 when it does not match.  The group cannot hold ")" and is
\* followed by ")", so it is the text up to the first ")" after p.
FilenameEnd(text, p) ==
    IF p < 1 \/ p > Len(text) \/ text[p] # LParen THEN 0
    ELSE LET q == FirstIndex(text, p + 1, {RParen})
         IN  IF q # 0 /\ IsImageFilename(SubSeq(text, p + 1, q - 1))
             THEN q ELSE 0

\* One match of a pattern: the two groups and the index of its last character.
NoMatch == [end |-> 0, spot_name |-> <<>>, filename |-> <<>>]

MatchAt(text, s, p, q, e) ==
    [end |-> e, spot_name |-> SubSeq(text, s, p - 1),
     filename |-> SubSeq(text, p + 1, q - 1)]

\* pattern1 = ([^([]+?)\(([^)]*\.(?:jpg|...))\)  tried at index s.
\* Group 1 holds neither "(" nor the opening bracket and is followed by "(",
\* so it ends right before the first of the two after s, which must be "(".
Pattern1At(text, s) ==
    IF text[s] \in {LParen, LQuote} THEN NoMatch
    ELSE LET p == FirstIndex(text, s + 1, {LParen, LQuote})
             q == FilenameEnd(text, p)
         IN  IF p # 0 /\ q # 0 THEN MatchAt(text, s, p, q, q) ELSE NoMatch

\* pattern2 = [([^](]+?)\(([^)]*\.(?:jpg|...))\)[^]]*]  tried at index s
\* (with [ and ] the corner brackets): group 1 is not empty and ends at the
\* first "(" , no closing bracket before it; the match ends at the first
\* closing bracket after the parenthesised filename.
Pattern2At(text, s) ==
    IF text[s] # LQuote THEN NoMatch
    ELSE LET p == FirstIndex(text, s + 1, {RQuote, LParen})
             q == FilenameEnd(text, p)
             r == IF q = 0 THEN 0 ELSE FirstIndex(text, q + 1, {RQuote})
         IN  IF p > s + 1 /\ q # 0 /\ r # 0
             THEN MatchAt(text, s + 1, p, q, r) ELSE NoMatch

\* pattern3 = [([^]]+?)\(([^)]*\.(?:jpg|...))\)  tried at index s: group 1 is
\* lazy and may hold "(", so it ends before the first "(" that starts a
\* parenthesised image filename, no closing bracket before it.
Pattern3At(text, s) ==
    IF text[s] # LQuote THEN NoMatch
    ELSE LET stop == FirstIndex(text, s + 1, {RQuote})
             last == IF stop = 0 THEN Len(text) ELSE stop - 1
             ok == {p \in (s + 2)..last : FilenameEnd(text, p) # 0}
         IN  IF ok = {} THEN NoMatch
             ELSE LET p == CHOOSE x \in ok : \A y \in ok : x <= y
                  IN  MatchAt(text, s + 1, p, FilenameEnd(text, p),
                              FilenameEnd(text, p))

PatternAt(pattern, text, s) ==
    CASE pattern = 1 -> Pattern1At(text, s)
      [] pattern = 2 -> Pattern2At(text, s)
      [] pattern = 3 -> Pattern3At(text, s)

\* line 555: re.findall(pattern, text_content): the matches from left to
\* right, each search starting after the end of the match before it
RECURSIVE FindAllFrom(_, _, _, _)
FindAllFrom(pattern, text, pos, out) ==
    IF pos > Len(text) THEN out
    ELSE LET m == PatternAt(pattern, text, pos)
         IN  IF m.end = 0
             THEN FindAllFrom(pattern, text, pos + 1, out)
             ELSE FindAllFrom(pattern, text, m.end + 1,
                    Append(out, [spot_name |-> m.spot_name,
                                 filename |-> m.filename]))

FindAll(pattern, text) == FindAllFrom(pattern, text, 1, <<>>)

\* as CleanSpotName, but at most one trailing middle dot is removed
CleanSpotName_onedot(spot_name) ==
    LET s == LStrip(RStrip(Strip(spot_name), {RQuote}), {LQuote})
        t == IF s # <<>> /\ s[Len(s)] = MiddleDot
             THEN SubSeq(s, 1, Len(s) - 1) ELSE s
    IN  RemoveChar(RemoveChar(Strip(t), LQuote), RQuote)

\* lines 558-559: strip().rstrip(close).lstrip(open).rstrip(dot).strip(),
\* then replace(open, '').replace(close, '')
CleanSpotName(spot_name) ==
    RemoveChar(RemoveChar(
        Strip(RStrip(LStrip(RStrip(Strip(spot_name), {RQuote}), {LQuote}),
                     {MiddleDot})),
        LQuote), RQuote)

\* line 560
CleanFilename(filename) == Strip(filename)

\* the length check off by one (> 2)
Accepted_longer(spot_name, filename) ==
    spot_name # <<>> /\ filename # <<>> /\ Len(spot_name) > 2

\* line 562: spot_name and filename and len(spot_name) > 1
Accepted(spot_name, filename) ==
    spot_name # <<>> /\ filename # <<>> /\ Len(spot_name) > 1

\* lines 556-563: the loop over the matches of one pattern
RECURSIVE StoreMatches(_, _)
StoreMatches(refs, matches) ==
    IF matches = <<>> THEN refs
    ELSE LET spot_name == CleanSpotName(Head(matches).spot_name)
             filename == CleanFilename(Head(matches).filename)
         IN  StoreMatches(
                IF Accepted(spot_name, filename)
                THEN DictSet(refs, spot_name, filename) ELSE refs,
                Tail(matches))

\* line 554: for pattern in [pattern1, pattern2, pattern3]
PatternOrder == <<1, 2, 3>>

\* lines 551-565
extract_image_references_from_text(text) ==
    StoreMatches(
        StoreMatches(
            StoreMatches(<<>>, FindAll(PatternOrder[1], text)),
            FindAll(PatternOrder[2], text)),
        FindAll(PatternOrder[3], text))

(***************************************************************************)
(* Values the harnesses and the session start from.                        *)
(***************************************************************************)
None == [none |-> TRUE]

FileX == <<"x", ".", "j", "p", "g">>
FileY == <<"y", ".", "p", "n", "g">>

\* "I went to A B museum" and {"A B": "x.jpg"}
ExampleAnswer ==
    <<"I", " ", "w", "e", "n", "t", " ", "t", "o", " ", "A", " ", "B", " ",
      "m", "u", "s", "e", "u", "m">>
ExampleRefs == <<[spot_name |-> <<"A", " ", "B">>, filename |-> FileX]>>

SessionIdle ==
    /\ uploader = <<>>
    /\ uploaded_files = <<>>
    /\ ai_response_data = None
    /\ backend_failed = FALSE
    /\ current_question_type = ""
    /\ analysis_count = 0
    /\ mentioned_spots = <<>>
    /\ shown_images = <<>>

SessionVars ==
    <<uploader, uploaded_files, ai_response_data, backend_failed,
      current_question_type, analysis_count, mentioned_spots, shown_images>>

(***************************************************************************)
(* SpecMatch: find_mentioned_spots_in_response applied to every answer and *)
(* every reference map of the bounded sets below.                          *)
(***************************************************************************)
MatchChars == {"a", "b", " "}

MatchNames == StringsOver(MatchChars, 0, MaxNameLen)

MatchAnswers == StringsOver(MatchChars, 0, MaxAnswerLen)

\* the entry put before or after the entry under test
OtherEntry == [spot_name |-> <<"a", "b">>, filename |-> FileY]

MatchMaps ==
    LET E == [spot_name : MatchNames, filename : {FileX}]
    IN  {<<>>} \cup {<<e>> : e \in E}
        \cup {<<e, OtherEntry>> : e \in {x \in E : x.spot_name # OtherEntry.spot_name}}
        \cup {<<OtherEntry, e>> : e \in {x \in E : x.spot_name # OtherEntry.spot_name}}

MatchInit ==
    /\ pc = "match_input"
    /\ text_content = <<>>
    /\ \/ ai_response = ExampleAnswer /\ image_references = ExampleRefs
       \/ ai_response \in MatchAnswers /\ image_references \in MatchMaps
    /\ mentioned_images = <<>>
    /\ SessionIdle

CallFindMentioned ==
    /\ pc = "match_input"
    /\ mentioned_images' =
         find_mentioned_spots_in_response(ai_response, image_references)
    /\ pc' = "matched"
    /\ UNCHANGED <<text_content, image_references, ai_response, SessionVars>>

\* the loop of the display code run on the same answer and map
CallDisplayLoop ==
    /\ pc = "matched"
    /\ mentioned_spots' =
         DisplayMentionedSpots([ai_response |-> ai_response,
                                image_references |-> image_references,
                                counted |-> FALSE])
    /\ pc' = "displayed"
    /\ UNCHANGED <<text_content, image_references, ai_response,
                   mentioned_images, uploader, uploaded_files,
                   ai_response_data, backend_failed, current_question_type,
                   analysis_count, shown_images>>

MatchNext == CallFindMentioned \/ CallDisplayLoop

SpecMatch == MatchInit /\ [][MatchNext]_vars

\* the names of a result list
MentionedNames(mentioned) == {mentioned[i].spot_name : i \in DOMAIN mentioned}

\* word is a whitespace-delimited token of name: a maximal run of non-blank
\* characters name[i..j]
IsTokenOf(word, name) ==
    \E i \in 1..Len(name) : \E j \in i..Len(name) :
        /\ word = SubSeq(name, i, j)
        /\ \A k \in i..j : ~IsSpace(name[k])
        /\ i = 1 \/ IsSpace(name[i - 1])
        /\ j = Len(name) \/ IsSpace(name[j + 1])

\* the two-tier rule of the matcher, stated on the name and the answer alone
MentionRule(name, answer) ==
    \/ In(name, answer)
    \/ \E i \in 1..Len(name) : \E j \in i..Len(name) :
          /\ IsTokenOf(SubSeq(name, i, j), name)
          /\ j - i + 1 >= 3
          /\ In(SubSeq(name, i, j), answer)

AllTokensShort(name) ==
    \A i \in 1..Len(name) : \A j \in i..Len(name) :
        IsTokenOf(SubSeq(name, i, j), name) => j - i + 1 < 3

\* C1: a non-empty name of R is in findMentions(A, R) exactly when it is a
\* substring of A or one of its whitespace-delimited tokens of length >= 3
\* is; the other entries of R and their order play no part.
C1_MentionedIffRule ==
    pc = "matched" =>
        \A i \in DOMAIN image_references :
            LET name == image_references[i].spot_name
            IN  name # <<>> =>
                  (name \in MentionedNames(mentioned_images)
                     <=> MentionRule(name, ai_response))

\* C1 witness: a two-entry map where the entry under test is matched by a
\* token only and the other entry is not matched
C1_Witness ==
    /\ pc = "matched"
    /\ Len(image_references) = 2
    /\ \E i \in DOMAIN image_references :
          LET name == image_references[i].spot_name
          IN  /\ name # OtherEntry.spot_name
              /\ ~In(name, ai_response)
              /\ name \in MentionedNames(mentioned_images)
    /\ OtherEntry.spot_name \notin MentionedNames(mentioned_images)

\* C2: findMentions(A, R) is a subsequence of R in R's order: every pair is
\* an entry of R, no name is returned twice, the order is R's.
C2_ResultIsSubsequence ==
    pc = "matched" =>
        /\ \E f \in [DOMAIN mentioned_images -> DOMAIN image_references] :
              /\ \A i \in DOMAIN mentioned_images :
                    mentioned_images[i] = image_references[f[i]]
              /\ \A i, j \in DOMAIN mentioned_images : i < j => f[i] < f[j]
        /\ \A i, j \in DOMAIN mentioned_images :
              mentioned_images[i].spot_name = mentioned_images[j].spot_name
                 => i = j

\* C2 witness: both entries of a two-entry map are returned
C2_Witness ==
    /\ pc = "matched"
    /\ Len(image_references) = 2
    /\ Len(mentioned_images) = 2
    /\ mentioned_images[1].filename # mentioned_images[2].filename
    /\ \A i \in 1..2 : Len(mentioned_images[i].spot_name) > 1

\* C3 as stated: a non-empty name all of whose tokens are shorter than 3
\* characters is never in the result; the answer "I went to A B museum" and
\* the map {"A B": "x.jpg"} give the empty list.
C3_ShortTokensNeverMatch ==
    pc = "matched" =>
        /\ \A i \in DOMAIN image_references :
              LET name == image_references[i].spot_name
              IN  name # <<>> /\ AllTokensShort(name)
                     => name \notin MentionedNames(mentioned_images)
        /\ ai_response = ExampleAnswer /\ image_references = ExampleRefs
              => mentioned_images = <<>>

\* C3 amended: a name all of whose tokens are shorter than 3 characters is
\* in the result exactly when the whole name is a substring of the answer
\* (the token rule never matches it; the exact rule still does).
C3_ShortTokensOnlyExact ==
    pc = "matched" =>
        \A i \in DOMAIN image_references :
            AllTokensShort(image_references[i].spot_name)
               => (image_references[i].spot_name
                      \in MentionedNames(mentioned_images)
                   <=> In(image_references[i].spot_name, ai_response))

\* C3 witness: a name of short tokens, one of which is in the answer while
\* the whole name is not, is not returned
C3_Witness ==
    /\ pc = "matched"
    /\ Len(image_references) = 1
    /\ LET name == image_references[1].spot_name
       IN  /\ AllTokensShort(name)
           /\ \E i \in 1..Len(name) : \E j \in i..Len(name) :
                 /\ j - i + 1 = 2
                 /\ IsTokenOf(SubSeq(name, i, j), name)
                 /\ In(SubSeq(name, i, j), ai_response)
           /\ ~In(name, ai_response)
    /\ mentioned_images = <<>>

\* C15: the loop written out in the display code returns, for every answer
\* and every map, the same ordered list as
\* find_mentioned_spots_in_response.
C15_DisplayLoopSameAsFunction ==
    pc = "displayed" => mentioned_spots = mentioned_images

\* C15 witness: both copies ran on a two-entry map and returned one entry,
\* matched by a token only
C15_Witness ==
    /\ pc = "displayed"
    /\ Len(image_references) = 2
    /\ Len(mentioned_spots) = 1
    /\ ~In(mentioned_spots[1].spot_name, ai_response)
    /\ mentioned_spots = mentioned_images

(***************************************************************************)
(* SpecExtract: extract_image_references_from_text applied to bounded      *)
(* texts, and the matcher applied to the map it returns.                   *)
(***************************************************************************)
\* The pieces free texts are made of: letters, a blank, the corner
\* brackets, the middle dot and two parenthesised image filenames.
Pieces ==
    {<<"a">>, <<"b">>, <<" ">>, <<LQuote>>, <<RQuote>>, <<MiddleDot>>,
     <<LParen>> \o FileX \o <<RParen>>, <<LParen>> \o FileY \o <<RParen>>}

RECURSIVE Flatten(_)
Flatten(ps) == IF ps = <<>> THEN <<>> ELSE Head(ps) \o Flatten(Tail(ps))

PieceTexts == {Flatten(ps) : ps \in StringsOver(Pieces, 0, MaxPieces)}

\* every case variant of a word given in lower case
UpperOf(c) ==
    CASE c = "j" -> "J" [] c = "p" -> "P" [] c = "g" -> "G"
      [] c = "e" -> "E" [] c = "n" -> "N"

CaseVariants(word) ==
    {v \in [1..Len(word) -> {"j", "p", "g", "e", "n", "J", "P", "G", "E", "N"}] :
        \A i \in 1..Len(word) : v[i] \in {word[i], UpperOf(word[i])}}

AnyCaseExtensions ==
    CaseVariants(<<"j", "p", "g">>) \cup CaseVariants(<<"j", "p", "e", "g">>)
       \cup CaseVariants(<<"p", "n", "g">>)

\* the reference forms of section 4.1, as texts
PlainForm(name, file) == name \o <<LParen>> \o file \o <<RParen>>

QuotedForm(name, file, trailing) ==
    <<LQuote>> \o name \o <<LParen>> \o file \o <<RParen>> \o trailing
       \o <<RQuote>>

\* names without surrounding blanks, of length 2..MaxNameLen
CanonNames ==
    {n \in StringsOver(MatchChars, 2, MaxNameLen) :
        ~IsSpace(n[1]) /\ ~IsSpace(n[Len(n)])}

CanonFiles == {FileX, <<"z", ".", "J", "P", "E", "G">>}

Trailings == StringsOver({"a", " ", LParen}, 0, MaxTrailLen)

CanonTexts ==
    {PlainForm(n, f) : n \in CanonNames, f \in CanonFiles}
    \cup {QuotedForm(n, f, t) : n \in CanonNames, f \in CanonFiles, t \in Trailings}

\* Name(f.<ext>) for every case variant of the three extensions
CaseTexts ==
    {PlainForm(<<"a", "b">>, <<"f", ".">> \o ext) : ext \in AnyCaseExtensions}

\* The format of the usage hint (lines 886-915): a heading line, then for a
\* reference a bullet line "*Name(file):" and an indented description line.
\* "h" stands for the characters of a heading, ":" for the full-width colon
\* and "d" for the characters of a description.
HintBullet(name, file) ==
    <<MiddleDot>> \o name \o <<LParen>> \o file \o <<RParen, ":">>

HintSection(heading, name, file) ==
    heading \o <<"\n">> \o HintBullet(name, file)
       \o <<"\n", " ", " ", "d", "\n">>

HintHeadings == {<<"h">>, <<"h", "h", " ", " ">>}

HintNames == {<<"a", "b">>, <<"b", "a", "b">>}

HintFiles == {FileX, FileY}

\* one section, or two sections with a blank line between them as in the hint
HintTexts ==
    {HintSection(h, n, f) : h \in HintHeadings, n \in HintNames, f \in HintFiles}
    \cup {HintSection(<<"h">>, n1, f1) \o <<"\n">> \o HintSection(<<"h">>, n2, f2) :
             n1 \in HintNames, n2 \in HintNames, f1 \in HintFiles, f2 \in HintFiles}

\* Name(file) where Name ends in k middle dots
Dots(k) == [i \in 1..k |-> MiddleDot]

DotCores ==
    {<<"a", "b">>, <<MiddleDot, "a", "b">>, <<"a", MiddleDot, "b">>}

DotText(core, k) == PlainForm(core \o Dots(k), FileX)

DotTexts == {DotText(core, k) : core \in DotCores, k \in 0..MaxDots}

ExtractTexts ==
    PieceTexts \cup CanonTexts \cup CaseTexts \cup HintTexts \cup DotTexts

ExtractAnswers == {<<>>, <<"a", "b">>}

ExtractInit ==
    /\ pc = "extract_input"
    /\ text_content \in ExtractTexts
    /\ ai_response \in ExtractAnswers
    /\ image_references = <<>>
    /\ mentioned_images = <<>>
    /\ SessionIdle

CallExtract ==
    /\ pc = "extract_input"
    /\ image_references' = extract_image_references_from_text(text_content)
    /\ pc' = "match_input"
    /\ UNCHANGED <<text_content, ai_response, mentioned_images, SessionVars>>

ExtractNext == CallExtract \/ CallFindMentioned \/ CallDisplayLoop

SpecExtract == ExtractInit /\ [][ExtractNext]_vars

Extracted == pc \in {"match_input", "matched", "displayed"}

\* two dicts are equal when they hold the same items (order plays no part)
Items(d) == {<<d[i].spot_name, d[i].filename>> : i \in DOMAIN d}

\* A text read as one reference in a canonical form over the extensions
\* exts: Name(file), or the same between corner brackets with an optional
\* trailing text after the closing parenthesis.  Name is longer than one
\* character, holds no parenthesis, bracket or middle dot and no blank at
\* either end; file holds no parenthesis and no blank at either end and ends
\* in "." and an extension; the trailing text holds nothing that closes a
\* parenthesis or a bracket.
ParseCanon(text, exts) ==
    LET quoted == text # <<>> /\ text[1] = LQuote
        body == IF quoted THEN SubSeq(text, 2, Len(text) - 1) ELSE text
        p == FirstIndex(body, 1, {LParen})
        q == FirstIndex(body, p + 1, {RParen})
        name == SubSeq(body, 1, p - 1)
        file == SubSeq(body, p + 1, q - 1)
        trailing == SubSeq(body, q + 1, Len(body))
    IN  [ok |->
            /\ quoted => Len(text) >= 2 /\ text[Len(text)] = RQuote
            /\ p # 0 /\ q # 0
            /\ \A i \in DOMAIN body : body[i] \notin {LQuote, RQuote}
            /\ ~quoted => trailing = <<>>
            /\ \A i \in DOMAIN trailing : trailing[i] \notin {RParen, "."}
            /\ Len(name) > 1
            /\ \A i \in DOMAIN name : name[i] \notin {RParen, MiddleDot}
            /\ ~IsSpace(name[1]) /\ ~IsSpace(name[Len(name)])
            /\ \A i \in DOMAIN file : file[i] # LParen
            /\ \E ext \in exts : EndsWith(file, <<".">> \o ext)
            /\ ~IsSpace(file[1]) /\ ~IsSpace(file[Len(file)]),
         quoted |-> quoted, name |-> name, file |-> file,
         trailing |-> trailing]

\* C4: findMentions returns the empty list for the empty answer, whatever
\* map the extractor produced, and for the empty map, whatever the answer.
C4_EmptyInputsGiveNoMentions ==
    pc = "matched" /\ (ai_response = <<>> \/ image_references = <<>>)
        => mentioned_images = <<>>

\* C4 witness: the empty answer matched against a non-empty extracted map
C4_Witness ==
    /\ pc = "matched"
    /\ ai_response = <<>>
    /\ Len(image_references) >= 2
    /\ mentioned_images = <<>>

\* C5 as stated: every entry of extractReferences(text) is fully cleaned:
\* the name has no blank at either end, no corner bracket and more than one
\* character; the filename is not empty and ends in jpg, jpeg or png.
C5_EntriesAreClean ==
    Extracted =>
        \A i \in DOMAIN image_references :
            LET name == image_references[i].spot_name
                file == image_references[i].filename
            IN  /\ name = Strip(name)
                /\ \A k \in DOMAIN name : name[k] \notin {LQuote, RQuote}
                /\ Len(Strip(name)) > 1
                /\ file # <<>>
                /\ \E ext \in AnyCaseExtensions : EndsWith(file, <<".">> \o ext)

\* C6: a text that is one reference in a canonical form (plain, quoted,
\* quoted with trailing text), its file ending in an extension the patterns
\* list, gives exactly the one-entry map {Name: file}.
C6_CanonicalFormGivesOneEntry ==
    Extracted =>
        LET c == ParseCanon(text_content, ImageExtensions)
        IN  c.ok => image_references =
                       <<[spot_name |-> c.name, filename |-> c.file]>>

\* C6 witness: a quoted reference with a trailing text and a name of two
\* words was extracted
C6_Witness ==
    /\ Extracted
    /\ LET c == ParseCanon(text_content, ImageExtensions)
       IN  /\ c.ok /\ c.quoted /\ c.trailing # <<>>
           /\ \E i \in DOMAIN c.name : IsSpace(c.name[i])
           /\ image_references = <<[spot_name |-> c.name, filename |-> c.file]>>

\* C7 as stated: Name(file.<ext>) yields the entry Name -> file.<ext> for
\* every case variant of jpg, jpeg and png, mixed case included.
C7_ExtensionCaseInsensitive ==
    Extracted =>
        LET c == ParseCanon(text_content, AnyCaseExtensions)
        IN  c.ok /\ ~c.quoted =>
               /\ HasKey(image_references, c.name)
               /\ Lookup(image_references, c.name) = c.file

\* C8 as stated: extractReferences(T \o T) equals extractReferences(T).
C8_DoubledTextSameMap ==
    Extracted =>
        Items(extract_image_references_from_text(text_content \o text_content))
           = Items(image_references)

\* C11 as stated: for a text in the format of the usage hint, extraction
\* followed by matching selects the file of every bullet line whose Name the
\* answer contains.
C11_HintFormatSelectsImage ==
    pc = "displayed" /\ text_content \in HintTexts =>
        \A name \in HintNames, file \in HintFiles :
            /\ In(<<"\n">> \o HintBullet(name, file), text_content)
            /\ In(name, ai_response)
            => \E i \in DOMAIN mentioned_spots : mentioned_spots[i].filename = file

\* C14 as stated: a candidate name that ends in k >= 1 middle dots is stored
\* with k-1 of them, leading and interior middle dots kept.
C14_OneTrailingDotRemoved ==
    Extracted =>
        \A core \in DotCores, k \in 1..MaxDots :
            text_content = DotText(core, k) =>
                image_references =
                    <<[spot_name |-> core \o Dots(k - 1), filename |-> FileX]>>

\* C14, amended: name cleaning removes the whole run of trailing middle dots:
\* a candidate name that ends in k >= 0 middle dots is stored without any of
\* them, and a leading or interior middle dot is never removed.
C14_TrailingDotsAllRemoved ==
    Extracted =>
        \A core \in DotCores, k \in 0..MaxDots :
            text_content = DotText(core, k) =>
                image_references = <<[spot_name |-> core, filename |-> FileX]>>

\* C14 witness: a name with an interior middle dot and two trailing ones was
\* extracted and stored without the trailing two
C14_Witness ==
    /\ Extracted
    /\ text_content = DotText(<<"a", MiddleDot, "b">>, 2)
    /\ image_references =
          <<[spot_name |-> <<"a", MiddleDot, "b">>, filename |-> FileX]>>

(***************************************************************************)
(* The session: st.session_state and the page script of src/app.py.        *)
(* Every user interaction runs the script once from the top; st.rerun()    *)
(* ends the run and schedules one more.  pc holds what triggered the last  *)
(* run.                                                                    *)
(***************************************************************************)
\* the options of the question type selectbox that the script tells apart
DataAnalysis == "data_analysis"
General == "general"
QuestionTypes == {DataAnalysis, General}

\* The files the user can put in the file uploader.
TextA ==
    <<LQuote, "a", "b">> \o <<LParen>> \o FileX \o <<RParen>>
       \o <<"a", "b">> \o <<LParen>> \o FileY \o <<RParen, RQuote>>
TextB ==
    <<"a", "b">> \o <<LParen>> \o FileY \o <<RParen>>
       \o <<" ", "b", "a">> \o <<LParen>> \o FileX \o <<RParen>>

FileA == <<"a", ".", "t", "x", "t">>
FileB == <<"b", ".", "t", "x", "t">>

Library ==
    {[name |-> FileA, type |-> "text/plain", content |-> TextA],
     [name |-> FileB, type |-> "text/plain", content |-> TextB],
     [name |-> FileX, type |-> "image/jpeg", content |-> <<>>]}

\* what the chat backend may return, and the messages of what it may raise
BackendAnswers == {<<"g", "o", " ", "a", "b">>, <<"h", "i">>}
ErrorMessages == {<<"4", "0", "1">>, <<"n", "o", " ", "b", "a">>}

\* line 721: the text put before str(e) (a Japanese phrase in the source)
ErrorPrefix == <<"E", "R", "R", ":", " ">>

FileKeys(files) == {files[i].key : i \in DOMAIN files}

\* lines 311-370: the entry stored for an uploaded file
FileEntry(f) ==
    [key |-> f.name,
     type |-> CASE f.type = "text/plain" -> "text"
                [] f.type = "text/csv" -> "csv"
                [] f.type \in {"image/jpeg", "image/jpg", "image/png"} -> "image"
                [] OTHER -> "other",
     content |-> f.content]

\* lines 304-373: every file of the widget whose name is not a key yet is
\* stored, in the widget's order
RECURSIVE ProcessUploads(_, _)
ProcessUploads(files, widget) ==
    IF widget = <<>> THEN files
    ELSE ProcessUploads(
            IF Head(widget).name \in FileKeys(files) THEN files
            ELSE Append(files, FileEntry(Head(widget))),
            Tail(widget))

\* line 430: del st.session_state.uploaded_files[file_key]
DeleteFile(files, key) == SelectSeq(files, LAMBDA e : e.key # key)

\* lines 653-660 of create_enhanced_prompt: the references of every text
\* file, in the order of uploaded_files, merged with dict.update
RECURSIVE AllImageReferences(_, _)
AllImageReferences(files, refs) ==
    IF files = <<>> THEN refs
    ELSE AllImageReferences(Tail(files),
            IF Head(files).type = "text"
            THEN DictUpdate(refs,
                    extract_image_references_from_text(Head(files).content))
            ELSE refs)

create_enhanced_prompt(files) == AllImageReferences(files, <<>>)

\* lines 687-721: the answer of the backend, or the error text of the
\* except branch
get_ai_response_enhanced(outcome) ==
    IF outcome.failed THEN ErrorPrefix \o outcome.text ELSE outcome.text

BackendOutcomes ==
    [failed : {FALSE}, text : BackendAnswers]
       \cup [failed : {TRUE}, text : ErrorMessages]

\* lines 828-837: the images shown for the mentioned spots
ShownImages(spots, files) ==
    LET shown(i) ==
            \E j \in DOMAIN files :
                files[j].key = spots[i].filename /\ files[j].type = "image"
    IN  [i \in 1..Cardinality({k \in DOMAIN spots : shown(k)}) |->
            LET k == CHOOSE k \in DOMAIN spots :
                        /\ shown(k)
                        /\ Cardinality({m \in 1..k : shown(m)}) = i
            IN  spots[k].filename]

\* line 243: the level shown by the learning guide
LearningLevel(count) == IF count \div 2 + 1 < 5 THEN count \div 2 + 1 ELSE 5

\* pc after a run: "rerun" when the run ended in st.rerun(), "stored" when
\* the ask handler stored an answer, "ready" otherwise
RerunPending == pc = "rerun"

HarnessIdle ==
    /\ text_content = <<>>
    /\ image_references = <<>>
    /\ ai_response = <<>>
    /\ mentioned_images = <<>>

HarnessVars == <<text_content, image_references, ai_response, mentioned_images>>

\* The state after the first run of the script: nothing uploaded, no stored
\* answer, the selectbox on its first option.  analysis_count is created
\* (lines 236-237) by the first run that follows, before anything reads it.
Init ==
    /\ pc = "start"
    /\ HarnessIdle
    /\ uploader = <<>>
    /\ uploaded_files = <<>>
    /\ ai_response_data = None
    /\ backend_failed = FALSE
    /\ current_question_type = DataAnalysis
    /\ analysis_count = 0
    /\ mentioned_spots = <<>>
    /\ shown_images = <<>>

\* One run of the script.  widget: the files in the uploader; ev: what
\* triggered the run; qtype: the selectbox; ask: the inputs of the ask
\* handler (accepted: the question is not blank, the credentials are set
\* and the client was created; outcome: what the backend did).
PageRun(widget, ev, qtype, ask) ==
    \E files1 \in {ProcessUploads(uploaded_files, widget)} :
    LET deleting ==
            /\ files1 # <<>>
            /\ \/ ev.kind = "delete_all"
               \/ ev.kind = "delete_file" /\ ev.key \in FileKeys(files1)
        stores == ev.kind = "ask" /\ ask.accepted
    IN  /\ uploader' = widget
        /\ UNCHANGED HarnessVars
        /\ IF deleting
           THEN \* lines 383-386 and 429-436, ending in st.rerun()
                /\ pc' = "rerun"
                /\ uploaded_files' =
                      IF ev.kind = "delete_all" THEN <<>>
                      ELSE DeleteFile(files1, ev.key)
                /\ mentioned_spots' = <<>>
                /\ shown_images' = <<>>
                /\ UNCHANGED <<ai_response_data, backend_failed,
                               current_question_type, analysis_count>>
           ELSE \* lines 738-775: the ask handler
                \E data1 \in
                      {IF stores
                       THEN [ai_response |-> get_ai_response_enhanced(ask.outcome),
                             image_references |-> create_enhanced_prompt(files1),
                             counted |-> FALSE]
                       ELSE ai_response_data} :
                \* lines 778-875: the display of the stored answer
                \E spots \in
                      {IF data1 # None THEN DisplayMentionedSpots(data1) ELSE <<>>} :
                LET showing == data1 # None
                    count1 ==
                        IF showing /\ qtype = DataAnalysis
                        THEN analysis_count + 1 ELSE analysis_count
                    clearing == showing /\ ev.kind = "clear"
                IN  /\ count1 <= MaxCount
                    /\ pc' = IF clearing THEN "rerun"
                             ELSE IF stores THEN "stored" ELSE "ready"
                    /\ uploaded_files' = files1
                    /\ current_question_type' = qtype
                    /\ analysis_count' = count1
                    /\ mentioned_spots' = spots
                    /\ shown_images' = ShownImages(spots, files1)
                    /\ ai_response_data' = IF clearing THEN None ELSE data1
                    /\ backend_failed' =
                          IF clearing THEN FALSE
                          ELSE IF stores THEN ask.outcome.failed
                               ELSE backend_failed

NoAsk == [accepted |-> FALSE,
          outcome |-> [failed |-> FALSE, text |-> <<>>]]

\* the user adds a file to the uploader
UploaderAdd ==
    /\ ~RerunPending
    /\ \E f \in Library :
          /\ \A i \in DOMAIN uploader : uploader[i].name # f.name
          /\ PageRun(Append(uploader, f), [kind |-> "uploader_add"],
                     current_question_type, NoAsk)

\* the user removes a file from the uploader
UploaderRemove ==
    /\ ~RerunPending
    /\ \E i \in DOMAIN uploader :
          PageRun(SelectSeq(uploader, LAMBDA f : f.name # uploader[i].name),
                  [kind |-> "uploader_remove"], current_question_type, NoAsk)

\* the delete-all button, shown while uploaded_files is not empty
ClickDeleteAll ==
    /\ ~RerunPending
    /\ uploaded_files # <<>>
    /\ PageRun(uploader, [kind |-> "delete_all"], current_question_type, NoAsk)

\* the delete button of one file
ClickDeleteFile ==
    /\ ~RerunPending
    /\ \E k \in FileKeys(uploaded_files) :
          PageRun(uploader, [kind |-> "delete_file", key |-> k],
                  current_question_type, NoAsk)

\* the question type selectbox
SelectQuestionType ==
    /\ ~RerunPending
    /\ \E t \in QuestionTypes \ {current_question_type} :
          PageRun(uploader, [kind |-> "select"], t, NoAsk)

\* the ask button
ClickAsk ==
    /\ ~RerunPending
    /\ \/ PageRun(uploader, [kind |-> "ask"], current_question_type, NoAsk)
       \/ \E outcome \in BackendOutcomes :
             PageRun(uploader, [kind |-> "ask"], current_question_type,
                     [accepted |-> TRUE, outcome |-> outcome])

\* the new-question button, shown with a stored answer
ClickClear ==
    /\ ~RerunPending
    /\ ai_response_data # None
    /\ PageRun(uploader, [kind |-> "clear"], current_question_type, NoAsk)

\* the run that st.rerun() schedules
Rerun ==
    /\ RerunPending
    /\ PageRun(uploader, [kind |-> "rerun"], current_question_type, NoAsk)

Next ==
    \/ UploaderAdd
    \/ UploaderRemove
    \/ ClickDeleteAll
    \/ ClickDeleteFile
    \/ SelectQuestionType
    \/ ClickAsk
    \/ ClickClear
    \/ Rerun

Spec == Init /\ [][Next]_vars

\* The candidates of one text in the order the claim gives: rule 1, rule 2,
\* rule 3, each rule's matches from left to right.
RuleCandidates(text) == FindAll(1, text) \o FindAll(2, text) \o FindAll(3, text)

\* the candidates of the text documents, in upload order
RECURSIVE DocCandidates(_)
DocCandidates(files) ==
    IF files = <<>> THEN <<>>
    ELSE (IF Head(files).type = "text"
          THEN RuleCandidates(Head(files).content) ELSE <<>>)
         \o DocCandidates(Tail(files))

\* the candidates cleaned, those the filter of line 562 drops left out
CleanedCandidates(files) ==
    LET c == DocCandidates(files)
        cleaned == [i \in DOMAIN c |->
                      [spot_name |-> CleanSpotName(c[i].spot_name),
                       filename |-> CleanFilename(c[i].filename)]]
    IN  SelectSeq(cleaned,
                  LAMBDA e : e.spot_name # <<>> /\ e.filename # <<>>
                                /\ Len(e.spot_name) > 1)

\* C9: the map stored by the ask handler has one entry per cleaned name, and
\* the entry holds the filename of the candidate of that name processed
\* last (documents in upload order, then rule 1, 2, 3, then left to right).
C9_LastCandidateWins ==
    pc = "stored" =>
        LET refs == ai_response_data.image_references
            c == CleanedCandidates(uploaded_files)
        IN  /\ IsDict(refs)
            /\ Keys(refs) = {c[i].spot_name : i \in DOMAIN c}
            /\ \A i \in DOMAIN c :
                  (\A j \in DOMAIN c : j > i => c[j].spot_name # c[i].spot_name)
                     => Lookup(refs, c[i].spot_name) = c[i].filename

\* C9 witness: two documents were uploaded, b.txt before a.txt; the name
\* "ab" has candidates with different filenames in both, and in a.txt the
\* candidate of rule 3 (x.jpg) comes after the later match of rule 1 (y.png)
C9_Witness ==
    /\ pc = "stored"
    /\ Len(uploaded_files) >= 2
    /\ uploaded_files[1].key = FileB
    /\ uploaded_files[2].key = FileA
    /\ LET c == CleanedCandidates(uploaded_files)
       IN  \E i, j \in DOMAIN c :
              /\ i < j
              /\ c[i].spot_name = c[j].spot_name
              /\ c[i].filename # c[j].filename
    /\ Lookup(ai_response_data.image_references, <<"a", "b">>) = FileX

\* C10 as stated: while the stored answer is the error text of a failed
\* backend call, no reference is reported as mentioned and no spot image is
\* shown.
C10_ErrorTextNotMatched ==
    backend_failed /\ ai_response_data # None
        => mentioned_spots = <<>> /\ shown_images = <<>>

\* a run that displayed a stored answer has just ended
Displayed == pc \in {"ready", "stored"} /\ ai_response_data # None

\* C12 as stated: whenever the matcher has run on a page run that displays a
\* stored answer, the map it used equals the map the extractor gives for the
\* text documents in the collection at that run.
C12_MatcherUsesCurrentMap ==
    Displayed /\ ai_response_data.image_references # <<>> =>
        Items(ai_response_data.image_references)
           = Items(create_enhanced_prompt(uploaded_files))

\* C13 as stated: the run that follows a deletion, the uploader unchanged,
\* puts no document into the collection that the deletion left out of it.
C13_DeletedStaysDeleted ==
    [][RerunPending /\ uploader' = uploader
          => FileKeys(uploaded_files') \subseteq FileKeys(uploaded_files)]_vars

\* C16 as stated: once a stored answer has been displayed and counted, a page
\* run that stores no new answer leaves analysis_count, and so the learning
\* level, as it is.
C16_CountedOncePerResponse ==
    [][/\ Displayed
       /\ current_question_type = DataAnalysis
       /\ pc' # "stored"
       /\ ai_response_data' = ai_response_data
       => /\ analysis_count' = analysis_count
          /\ LearningLevel(analysis_count') = LearningLevel(analysis_count)]_vars

====
